---- MODULE Spec2Model ----
(***************************************************************************)
(* Model of src/Search.cpp: the DirectStorage / D3D12 ingestion pipeline   *)
(* (initialize_direct_storage, read_file_direct_storage,                   *)
(* search_files_with_regex) and the two exported entry points XWF_Run and  *)
(* XWF_Exit.  One host thread runs the code; the storage queue and the     *)
(* D3D12 command queue complete submitted work asynchronously.             *)
(***************************************************************************)
EXTENDS Integers, Sequences, FiniteSets, TLC

VARIABLES
    disk,              \* the files on disk: path -> [exists, data]
    storageFactory,    \* the six global ComPtr handles: TRUE = non-null
    storageQueue,
    device,
    commandQueue,
    commandAllocator,
    commandList,
    clCommands,        \* commands recorded in commandList (never Reset by the code)
    sqEnqueued,        \* storage queue: requests enqueued, not yet submitted
    sqSubmitted,       \* storage queue: requests submitted, not yet completed
    cqPending,         \* command queue: submitted command lists not yet executed
    buffers,           \* committed resources: slot -> buffer record
    pc,                \* position of the host thread
    caller,            \* who called search_files_with_regex: "run" or "direct"
    file_paths,        \* search_files_with_regex arguments
    regex_pattern,
    idx,               \* position of the range-for loop in file_paths
    results,           \* one record per line printed to cout / cerr
    storageFile,       \* locals of read_file_direct_storage
    fileSize,
    fileContent,
    gpuBuffer,
    readbackBuffer,
    ret,               \* return value of the last entry point that returned
    lastOp,            \* the last entry point or call that finished
    relOrder,          \* handles in the order the last XWF_Exit reset them
    allocs,            \* sizes this invocation passed to CreateCommittedResource
    rejected,          \* a submission of the current invocation was rejected
    scanInit,          \* were all handles valid when the current scan was called
    prev,              \* the previous scan of the same session
    inits,             \* number of initialize_direct_storage calls
    scans              \* number of direct search_files_with_regex calls

ctxVars   == <<storageFactory, storageQueue, device, commandQueue,
               commandAllocator, commandList>>
devVars   == <<clCommands, sqEnqueued, sqSubmitted, cqPending, buffers>>
scanVars  == <<caller, file_paths, regex_pattern, idx, results, scanInit, prev>>
localVars == <<storageFile, fileSize, fileContent, gpuBuffer, readbackBuffer,
               rejected, allocs>>
entryVars == <<ret, lastOp, relOrder, inits, scans>>
vars == <<disk, ctxVars, devVars, scanVars, localVars, entryVars, pc>>

----------------------------------------------------------------------------
(* Bounds of the model *)

\* longest file, in bytes
MaxLen == 1
\* calls of XWF_Run and direct calls of search_files_with_regex in one process
MaxCalls == 2
\* longest file list of a direct call, XWF_Run's own list apart
MaxList == 1
\* resource slots (addresses) the device hands out
MaxBuf == 2

----------------------------------------------------------------------------
(* Data *)

\* XWF_Run's literal file list
RunPaths == <<"file1.txt", "file2.txt", "file3.txt">>

Paths == {RunPaths[i] : i \in 1..Len(RunPaths)}

\* the byte the literal pattern of XWF_Run matches
RunPattern == 2

\* every byte of a file is the file's own number, so that bytes of one file
\* found in another file's result are visible
FileByte(p) == CHOOSE i \in 1..Len(RunPaths) : RunPaths[i] = p

Zeros(n) == [j \in 1..n |-> 0]

FileData(p, n) == [j \in 1..n |-> FileByte(p)]

NoFile == [exists |-> FALSE, data |-> <<>>]

\* a file of path p is missing or holds 0..MaxLen bytes
FilesOf(p) == {NoFile} \cup
              {[exists |-> TRUE, data |-> FileData(p, n)] : n \in 0..MaxLen}

Disks == {d \in [Paths -> UNION {FilesOf(p) : p \in Paths}] :
             \A p \in Paths : d[p] \in FilesOf(p)}

\* cudf::strings::contains on the column built from the content: does the
\* pattern's byte occur in the content
Match(content, pattern) == \E i \in 1..Len(content) : content[i] = pattern

BufIds == 1..MaxBuf

FreeBuf == [alive |-> FALSE, heap |-> "none", size |-> 0, data |-> <<>>,
            state |-> "none", mapped |-> FALSE]

\* a committed resource as CreateCommittedResource returns it: zero-filled,
\* in state COPY_DEST
NewBuf(heap, n) == [alive |-> TRUE, heap |-> heap, size |-> n, data |-> Zeros(n),
                    state |-> "COPY_DEST", mapped |-> FALSE]

\* the slot a new resource gets: the lowest free one
AllocId == CHOOSE b \in BufIds :
              /\ ~buffers[b].alive
              /\ \A c \in BufIds : c < b => buffers[c].alive

Initialized == /\ storageFactory /\ storageQueue /\ device
               /\ commandQueue /\ commandAllocator /\ commandList

AllReleased == /\ ~storageFactory /\ ~storageQueue /\ ~device
               /\ ~commandQueue /\ ~commandAllocator /\ ~commandList

NoPrev == [valid |-> FALSE, paths |-> <<>>, pattern |-> 0, matched |-> <<>>]

\* what a finished scan printed after "->" for each path: the match, or
\* nothing for a path that failed (a path one of whose submissions the device
\* rejected counts as failed here)
Verdict(r) == IF r.err # "none" \/ r.rejected THEN "error"
              ELSE IF r.matched THEN "true" ELSE "false"

----------------------------------------------------------------------------
(* Initial state: the DLL is loaded, every global ComPtr is null *)

InitWith(D) ==
    /\ disk \in D
    /\ storageFactory = FALSE /\ storageQueue = FALSE /\ device = FALSE
    /\ commandQueue = FALSE /\ commandAllocator = FALSE /\ commandList = FALSE
    /\ clCommands = <<>> /\ sqEnqueued = <<>> /\ sqSubmitted = <<>>
    /\ cqPending = <<>>
    /\ buffers = [b \in BufIds |-> FreeBuf]
    /\ pc = "idle" /\ caller = "none"
    /\ file_paths = <<>> /\ regex_pattern = 0 /\ idx = 0 /\ results = <<>>
    /\ storageFile = FALSE /\ fileSize = 0 /\ fileContent = <<>>
    /\ gpuBuffer = 0 /\ readbackBuffer = 0
    /\ ret = 0 /\ lastOp = "none" /\ relOrder = <<>>
    /\ allocs = <<>> /\ rejected = FALSE /\ scanInit = FALSE /\ prev = NoPrev
    /\ inits = 0 /\ scans = 0

Init == InitWith(Disks)

\* the disks the direct calls are explored on: file1.txt is missing, the
\* other two files are anything
ScanDisks == {d \in Disks : ~d[RunPaths[1]].exists}

InitScan == InitWith(ScanDisks)

----------------------------------------------------------------------------
(* initialize_direct_storage: six sub-steps in order                        *)
(*   1 DStorageGetFactory      -> storageFactory                            *)
(*   2 D3D12CreateDevice       -> device                                    *)
(*   3 CreateCommandQueue      -> commandQueue                              *)
(*   4 CreateCommandAllocator  -> commandAllocator                          *)
(*   5 CreateCommandList       -> commandList                               *)
(*   6 CreateQueue             -> storageQueue                              *)
(* failAt = 0: every sub-step succeeds; failAt = k: sub-step k returns a    *)
(* failed HRESULT and the function throws there.                            *)

\* sub-step k is executed (the function has not thrown before it)
Reached(k, failAt) == failAt = 0 \/ k <= failAt

\* the handle sub-step k writes, given its value before the call: ComPtr's
\* operator& releases the old object; a successful create stores a new one, a
\* failed create leaves null; a sub-step that is not reached leaves the old
\* handle as it was
InitHandle(k, old, failAt) ==
    IF ~Reached(k, failAt) THEN old ELSE k # failAt

\* the locals of read_file_direct_storage when no invocation is running
NoLocals ==
    /\ storageFile' = FALSE /\ fileSize' = 0 /\ fileContent' = <<>>
    /\ gpuBuffer' = 0 /\ readbackBuffer' = 0
    /\ rejected' = FALSE /\ allocs' = <<>>

\* the start of search_files_with_regex, entered with list L and pattern p
StartScan(L, p, who) ==
    /\ file_paths' = L
    /\ regex_pattern' = p
    /\ caller' = who
    /\ results' = <<>>
    /\ idx' = 1
    /\ scanInit' = Initialized'
    /\ NoLocals

\* no scan is running or has just run: the lines printed so far belong to an
\* earlier call
NoScan ==
    /\ file_paths' = <<>> /\ regex_pattern' = 0 /\ caller' = "none"
    /\ results' = <<>> /\ idx' = 0 /\ scanInit' = FALSE
    /\ UNCHANGED localVars

\* the check of the last sub-step's HRESULT left out
InitThrowsButLast(failAt) == failAt \notin {0, 6}

\* initialize_direct_storage throws: every sub-step's HRESULT is checked
InitThrows(failAt) == failAt # 0

\* XWF_Run up to the first path of the loop (or to its return 1 when
\* initialize_direct_storage throws)
XWF_Run(failAt) ==
    /\ pc = "idle"
    /\ inits + scans < MaxCalls
    /\ inits' = inits + 1
    /\ storageFactory'   = InitHandle(1, storageFactory, failAt)
    /\ device'           = InitHandle(2, device, failAt)
    /\ commandQueue'     = InitHandle(3, commandQueue, failAt)
    /\ commandAllocator' = InitHandle(4, commandAllocator, failAt)
    /\ commandList'      = InitHandle(5, commandList, failAt)
    /\ storageQueue'     = InitHandle(6, storageQueue, failAt)
    \* work pending on a queue goes with the queue, recorded commands with the
    \* command list
    /\ cqPending'  = IF Reached(3, failAt) THEN <<>> ELSE cqPending
    /\ clCommands' = IF Reached(5, failAt) THEN <<>> ELSE clCommands
    /\ sqEnqueued' = IF Reached(6, failAt) THEN <<>> ELSE sqEnqueued
    /\ sqSubmitted' = IF Reached(6, failAt) THEN <<>> ELSE sqSubmitted
    /\ prev' = NoPrev
    /\ IF InitThrows(failAt)
         THEN /\ pc' = "idle" /\ ret' = 1 /\ lastOp' = "run_failed"
              /\ NoScan
         ELSE /\ pc' = "open" /\ lastOp' = "run_started"
              /\ StartScan(RunPaths, RunPattern, "run")
              /\ UNCHANGED ret
    /\ UNCHANGED <<disk, buffers, relOrder, scans>>

----------------------------------------------------------------------------
(* XWF_Exit *)

\* the device reset first
ExitOrderDeviceFirst == <<"device", "storageFactory", "storageQueue",
                          "commandList", "commandAllocator", "commandQueue">>

ExitOrder == <<"storageQueue", "storageFactory", "commandList",
               "commandAllocator", "commandQueue", "device">>

Held(h) ==
    CASE h = "storageQueue"     -> storageQueue
      [] h = "storageFactory"   -> storageFactory
      [] h = "commandList"      -> commandList
      [] h = "commandAllocator" -> commandAllocator
      [] h = "commandQueue"     -> commandQueue
      [] h = "device"           -> device

\* a Reset forgotten for the factory
ResetButFactory(h) == h = "storageFactory" /\ Held(h)

\* ComPtr::Reset: releases the object if there is one, and leaves null;
\* on a null ComPtr it does nothing
Reset(h) == FALSE

XWF_Exit ==
    /\ pc = "idle"
    /\ storageQueue'     = Reset("storageQueue")
    /\ storageFactory'   = Reset("storageFactory")
    /\ commandList'      = Reset("commandList")
    /\ commandAllocator' = Reset("commandAllocator")
    /\ commandQueue'     = Reset("commandQueue")
    /\ device'           = Reset("device")
    /\ relOrder' = SelectSeq(ExitOrder, Held)
    /\ cqPending' = <<>> /\ clCommands' = <<>>
    /\ sqEnqueued' = <<>> /\ sqSubmitted' = <<>>
    /\ ret' = 0
    /\ lastOp' = IF lastOp \in {"exit", "exit_twice"} THEN "exit_twice" ELSE "exit"
    /\ prev' = NoPrev
    /\ NoScan
    /\ UNCHANGED <<disk, buffers, pc, inits, scans>>

----------------------------------------------------------------------------
(* search_files_with_regex and read_file_direct_storage *)

\* the path of the current loop iteration
Path == file_paths[idx]

\* what no step of the loop body changes
loopFixed == <<disk, ctxVars, caller, file_paths, regex_pattern, scanInit, prev,
               relOrder, inits, scans>>

\* a step inside read_file_direct_storage that goes on to position next
Goto(next) == pc' = next /\ UNCHANGED <<results, idx, ret, lastOp>>

\* a null ComPtr is dereferenced: an access violation, which no handler of the
\* code catches; the process is gone
Crash ==
    /\ pc' = "crashed"
    /\ UNCHANGED <<loopFixed, devVars, results, idx, localVars, ret, lastOp>>

\* the readback buffer held by a raw pointer: nothing releases it
ReleaseGpuOnly ==
    [b \in BufIds |-> IF b = gpuBuffer THEN FreeBuf ELSE buffers[b]]

\* the destructors of read_file_direct_storage's ComPtr locals, which run on
\* return and on throw: the buffers this invocation created are released
ReleaseLocals ==
    [b \in BufIds |->
        IF b \in {gpuBuffer, readbackBuffer} THEN FreeBuf ELSE buffers[b]]

\* the sizes the invocation has passed to CreateCommittedResource when it
\* throws kind: a throw after an allocation follows the call that failed
Passed(kind) ==
    IF kind \in {"alloc_gpu", "alloc_rb"} THEN Append(allocs, fileSize) ELSE allocs

\* the match flag of the line before left standing in the error line
ErrorResultStale(path, kind) ==
    [path |-> path,
     matched |-> (results # <<>> /\ results[Len(results)].matched),
     err |-> kind, content |-> <<>>, allocs |-> Passed(kind),
     rejected |-> rejected]

\* the line the catch clause prints to cerr for a path
ErrorResult(path, kind) ==
    [path |-> path, matched |-> FALSE, err |-> kind, content |-> <<>>,
     allocs |-> Passed(kind), rejected |-> rejected]

\* the line printed to cout for a path whose content was read
OkResult(path, content) ==
    [path |-> path, matched |-> Match(content, regex_pattern), err |-> "none",
     content |-> content, allocs |-> allocs, rejected |-> rejected]

\* a catch clause that handles the failed open only
CaughtOpenOnly(kind) == kind = "open"

\* every exception read_file_direct_storage throws is a std::runtime_error,
\* which catch (const std::exception&) catches
Caught(kind) == kind \in {"open", "size", "alloc_gpu", "alloc_rb", "map"}

\* XWF_Run failing when a file of the batch failed
RunResultAnyError == IF \E i \in 1..Len(results') : results'[i].err # "none"
                       THEN 1 ELSE 0

\* what XWF_Run returns after search_files_with_regex has returned
RunResult == 0

\* the end of one loop iteration with the line res printed: the next path,
\* or the return of search_files_with_regex (and of XWF_Run, with 0)
FinishFile(res) ==
    /\ results' = Append(results, res)
    /\ buffers' = ReleaseLocals
    /\ storageFile' = FALSE /\ fileSize' = 0 /\ fileContent' = <<>>
    /\ gpuBuffer' = 0 /\ readbackBuffer' = 0 /\ rejected' = FALSE
    /\ allocs' = <<>>
    /\ idx' = idx + 1
    /\ IF idx < Len(file_paths)
         THEN pc' = "open" /\ UNCHANGED <<ret, lastOp>>
         ELSE /\ pc' = "idle"
              /\ ret' = IF caller = "run" THEN RunResult ELSE ret
              /\ lastOp' = IF caller = "run" THEN "run_ok" ELSE "scan"

\* throw std::runtime_error(kind) in read_file_direct_storage: the stack is
\* unwound and the loop's catch clause handles it; an exception that clause
\* did not catch would leave search_files_with_regex (in XWF_Run: return 1)
Throw(kind) ==
    IF Caught(kind)
      THEN FinishFile(ErrorResult(Path, kind))
      ELSE /\ buffers' = ReleaseLocals
           /\ storageFile' = FALSE /\ fileSize' = 0 /\ fileContent' = <<>>
           /\ gpuBuffer' = 0 /\ readbackBuffer' = 0 /\ rejected' = FALSE
           /\ allocs' = <<>>
           /\ pc' = "idle"
           /\ ret' = IF caller = "run" THEN 1 ELSE ret
           /\ lastOp' = IF caller = "run" THEN "run_threw" ELSE "scan_threw"
           /\ UNCHANGED <<results, idx>>

\* storageFactory->OpenFile: fails for a path that does not exist, and may
\* fail for one that does (not accessible)
OpenFile(ok) ==
    /\ pc = "open"
    /\ IF ~storageFactory THEN Crash
       ELSE /\ IF disk[Path].exists /\ ok
                 THEN /\ storageFile' = TRUE
                      /\ Goto("size")
                      /\ UNCHANGED <<buffers, fileSize, fileContent, gpuBuffer,
                                     readbackBuffer, rejected, allocs>>
                 ELSE Throw("open")
            /\ UNCHANGED <<loopFixed, clCommands, sqEnqueued, sqSubmitted,
                           cqPending>>

\* storageFile->GetFileInformation, then std::vector<uint8_t> fileContent(fileSize)
GetFileInformation(ok) ==
    /\ pc = "size"
    /\ IF ok
         THEN /\ fileSize' = Len(disk[Path].data)
              /\ fileContent' = Zeros(fileSize')
              /\ Goto("alloc_gpu")
              /\ UNCHANGED <<buffers, storageFile, gpuBuffer, readbackBuffer,
                             rejected, allocs>>
         ELSE Throw("size")
    /\ UNCHANGED <<loopFixed, clCommands, sqEnqueued, sqSubmitted, cqPending>>

\* the outcome of device->CreateCommittedResource for bufferDesc.Width =
\* size: a buffer of width 0 is an invalid argument; any other size succeeds
\* or fails (out of memory, device removed)
Created(size, ok) == size > 0 /\ ok

\* the Default-heap buffer: CreateCommittedResource is called with the file's
\* size whatever that size is
CreateGpuBuffer(ok) ==
    /\ pc = "alloc_gpu"
    /\ IF ~device THEN Crash
       ELSE /\ IF Created(fileSize, ok)
                 THEN /\ buffers' = [buffers EXCEPT
                                       ![AllocId] = NewBuf("default", fileSize)]
                      /\ allocs' = Append(allocs, fileSize)
                      /\ gpuBuffer' = AllocId
                      /\ Goto("enqueue")
                      /\ UNCHANGED <<storageFile, fileSize, fileContent,
                                     readbackBuffer, rejected>>
                 ELSE Throw("alloc_gpu")
            /\ UNCHANGED <<loopFixed, clCommands, sqEnqueued, sqSubmitted,
                           cqPending>>

\* storageQueue->EnqueueReadFile: its result is not looked at
EnqueueReadFile(accepted) ==
    /\ pc = "enqueue"
    /\ IF ~storageQueue THEN Crash
       ELSE /\ sqEnqueued' =
                 IF accepted
                   THEN Append(sqEnqueued,
                               [path |-> Path, offset |-> 0, length |-> fileSize,
                                dest |-> gpuBuffer])
                   ELSE sqEnqueued
            /\ rejected' = (rejected \/ ~accepted)
            /\ Goto("submit")
            /\ UNCHANGED <<loopFixed, clCommands, sqSubmitted, cqPending, buffers,
                           storageFile, fileSize, fileContent, gpuBuffer,
                           readbackBuffer, allocs>>

\* storageQueue->Submit
Submit ==
    /\ pc = "submit"
    /\ sqSubmitted' = sqSubmitted \o sqEnqueued
    /\ sqEnqueued' = <<>>
    /\ Goto("wait")
    /\ UNCHANGED <<loopFixed, clCommands, cqPending, buffers, localVars>>

\* a wait that also waits for the command queue to drain
IdleBothQueues == sqSubmitted = <<>> /\ cqPending = <<>>

\* a wait that returns at once
IdleNoWait == TRUE

\* the storage queue is idle: no submitted request is outstanding
Idle == sqSubmitted = <<>>

\* storageQueue->WaitForIdle returns once the storage queue is idle
WaitForIdle ==
    /\ pc = "wait"
    /\ Idle
    /\ Goto("alloc_rb")
    /\ UNCHANGED <<loopFixed, devVars, localVars>>

\* the Readback-heap buffer, from the same bufferDesc (device was
\* dereferenced before, at the first allocation)
CreateReadbackBuffer(ok) ==
    /\ pc = "alloc_rb"
    /\ IF Created(fileSize, ok)
         THEN /\ buffers' = [buffers EXCEPT
                               ![AllocId] = NewBuf("readback", fileSize)]
              /\ allocs' = Append(allocs, fileSize)
              /\ readbackBuffer' = AllocId
              /\ Goto("record")
              /\ UNCHANGED <<storageFile, fileSize, fileContent, gpuBuffer,
                             rejected>>
         ELSE Throw("alloc_rb")
    /\ UNCHANGED <<loopFixed, clCommands, sqEnqueued, sqSubmitted, cqPending>>

\* commandList->ResourceBarrier and commandList->CopyResource: two commands
\* appended to the global command list
RecordCopy ==
    /\ pc = "record"
    /\ IF ~commandList THEN Crash
       ELSE /\ clCommands' = clCommands \o
                 << [op |-> "barrier", dst |-> gpuBuffer, src |-> gpuBuffer,
                     before |-> "COPY_DEST", after |-> "COPY_SOURCE"],
                    [op |-> "copy", dst |-> readbackBuffer, src |-> gpuBuffer,
                     before |-> "none", after |-> "none"] >>
            /\ Goto("execute")
            /\ UNCHANGED <<loopFixed, sqEnqueued, sqSubmitted, cqPending, buffers,
                           localVars>>

\* commandQueue->ExecuteCommandLists (void: a rejected submission is not
\* reported) and commandQueue->Signal(nullptr, 0), which signals no fence and
\* is followed by no wait
ExecuteCommandLists(accepted) ==
    /\ pc = "execute"
    /\ IF ~commandQueue THEN Crash
       ELSE /\ cqPending' = IF accepted THEN Append(cqPending, clCommands)
                                        ELSE cqPending
            /\ rejected' = (rejected \/ ~accepted)
            /\ Goto("map")
            /\ UNCHANGED <<loopFixed, clCommands, sqEnqueued, sqSubmitted, buffers,
                           storageFile, fileSize, fileContent, gpuBuffer,
                           readbackBuffer, allocs>>

\* readbackBuffer->Map
Map(ok) ==
    /\ pc = "map"
    /\ IF ok
         THEN /\ buffers' = [buffers EXCEPT ![readbackBuffer].mapped = TRUE]
              /\ Goto("memcpy")
              /\ UNCHANGED <<storageFile, fileSize, fileContent, gpuBuffer,
                             readbackBuffer, rejected, allocs>>
         ELSE Throw("map")
    /\ UNCHANGED <<loopFixed, clCommands, sqEnqueued, sqSubmitted, cqPending>>

\* memcpy(fileContent.data(), mappedData, fileSize) and readbackBuffer->Unmap
Memcpy ==
    /\ pc = "memcpy"
    /\ fileContent' = SubSeq(buffers[readbackBuffer].data, 1, fileSize)
    /\ buffers' = [buffers EXCEPT ![readbackBuffer].mapped = FALSE]
    /\ Goto("return")
    /\ UNCHANGED <<loopFixed, clCommands, sqEnqueued, sqSubmitted, cqPending,
                   storageFile, fileSize, gpuBuffer, readbackBuffer, rejected,
                   allocs>>

\* return fileContent, then the rest of the loop body: the pattern match and
\* the line printed to cout
Return ==
    /\ pc = "return"
    /\ FinishFile(OkResult(Path, fileContent))
    /\ UNCHANGED <<loopFixed, clCommands, sqEnqueued, sqSubmitted, cqPending>>

----------------------------------------------------------------------------
(* The device side *)

\* one recorded command executed on the resources that exist when it runs; a
\* command that names a released resource, or a barrier whose before-state
\* does not hold, has no effect in the model
Exec(bufs, c) ==
    IF c.op = "barrier"
      THEN IF bufs[c.dst].alive /\ bufs[c.dst].state = c.before
             THEN [bufs EXCEPT ![c.dst].state = c.after]
             ELSE bufs
      ELSE IF /\ bufs[c.dst].alive /\ bufs[c.src].alive
              /\ bufs[c.dst].size = bufs[c.src].size
             THEN [bufs EXCEPT ![c.dst].data = bufs[c.src].data]
             ELSE bufs

RECURSIVE RunCommands(_, _)
RunCommands(bufs, cmds) ==
    IF cmds = <<>> THEN bufs
    ELSE RunCommands(Exec(bufs, Head(cmds)), Tail(cmds))

\* the storage queue completes its oldest submitted request: the file's
\* bytes land in the destination buffer
StorageComplete ==
    /\ sqSubmitted # <<>>
    /\ LET r == Head(sqSubmitted) IN
         buffers' = IF buffers[r.dest].alive
                      THEN [buffers EXCEPT ![r.dest].data =
                              SubSeq(disk[r.path].data, r.offset + 1,
                                     r.offset + r.length)]
                      ELSE buffers
    /\ sqSubmitted' = Tail(sqSubmitted)
    /\ UNCHANGED <<disk, ctxVars, clCommands, sqEnqueued, cqPending, scanVars,
                   localVars, entryVars, pc>>

\* the command queue executes its oldest submitted command list
GpuExecute ==
    /\ cqPending # <<>>
    /\ buffers' = RunCommands(buffers, Head(cqPending))
    /\ cqPending' = Tail(cqPending)
    /\ UNCHANGED <<disk, ctxVars, clCommands, sqEnqueued, sqSubmitted, scanVars,
                   localVars, entryVars, pc>>

----------------------------------------------------------------------------
(* A direct call of search_files_with_regex, in whatever state the context is *)

Lists == {RunPaths} \cup UNION {[1..n -> Paths] : n \in 0..MaxList}

ScanCall(L, p) ==
    /\ pc = "idle"
    /\ inits + scans < MaxCalls
    /\ scans' = scans + 1
    /\ UNCHANGED ctxVars
    /\ prev' = IF lastOp \in {"run_ok", "scan"}
                 THEN [valid |-> TRUE, paths |-> file_paths,
                       pattern |-> regex_pattern,
                       matched |-> [i \in 1..Len(results) |-> Verdict(results[i])]]
                 ELSE NoPrev
    /\ StartScan(L, p, "direct")
    /\ pc' = IF L = <<>> THEN "idle" ELSE "open"
    /\ lastOp' = IF L = <<>> THEN "scan" ELSE "scan_started"
    /\ UNCHANGED <<disk, devVars, ret, relOrder, inits>>

----------------------------------------------------------------------------
(* Specifications *)

HostStep ==
    \/ \E ok \in BOOLEAN : OpenFile(ok)
    \/ \E ok \in BOOLEAN : GetFileInformation(ok)
    \/ \E ok \in BOOLEAN : CreateGpuBuffer(ok)
    \/ \E accepted \in BOOLEAN : EnqueueReadFile(accepted)
    \/ Submit
    \/ WaitForIdle
    \/ \E ok \in BOOLEAN : CreateReadbackBuffer(ok)
    \/ RecordCopy
    \/ \E accepted \in BOOLEAN : ExecuteCommandLists(accepted)
    \/ \E ok \in BOOLEAN : Map(ok)
    \/ Memcpy
    \/ Return

\* the program as its host drives it: the exported entry points only
Next ==
    \/ \E failAt \in 0..6 : XWF_Run(failAt)
    \/ XWF_Exit
    \/ HostStep
    \/ StorageComplete
    \/ GpuExecute

Spec == Init /\ [][Next]_vars

\* the entry points with the scheduling the code relies on: the control
\* thread keeps running while it has a step to take, and the storage queue
\* completes every request submitted to it; nothing is assumed of the
\* command queue. Explored on the disks where file1.txt is missing: a failed
\* file followed by two files that are read
SpecLive ==
    InitScan /\ [][Next]_vars /\ WF_vars(HostStep) /\ WF_vars(StorageComplete)

\* the same, and search_files_with_regex called directly
NextScan ==
    \/ Next
    \/ \E L \in Lists : ScanCall(L, RunPattern)

SpecScan == InitScan /\ [][NextScan]_vars

----------------------------------------------------------------------------
(* Properties *)

LoopPcs == {"open", "size", "alloc_gpu", "enqueue", "submit", "wait", "alloc_rb",
            "record", "execute", "map", "memcpy", "return"}

\* a scan has returned to its caller
ScanDone == pc = "idle" /\ lastOp \in {"run_ok", "scan"}

\* the command list this invocation submitted is still waiting on the command
\* queue: the queue is FIFO, and the invocation's two commands make its list
\* differ from every list submitted before
CopyPending == /\ cqPending # <<>>
               /\ cqPending[Len(cqPending)] = clCommands

Range(f) == {f[i] : i \in DOMAIN f}

\* C1: the host reads the mapped readback buffer (memcpy) only when the copy
\* this invocation submitted has completed on the device.
C1_ReadAfterCopyComplete ==
    ~(pc = "memcpy" /\ ~rejected /\ buffers[readbackBuffer].mapped /\ CopyPending)

\* C2: every content read_file_direct_storage returns is the file's content,
\* byte for byte and of the file's length (stated for the invocations whose
\* read and copy submissions the device accepted).
C2_RoundTrip ==
    \A i \in 1..Len(results) :
        results[i].err = "none" /\ ~results[i].rejected =>
            results[i].content = disk[results[i].path].data

\* C3: a scan prints exactly one line per path, in the order of the list:
\* while it runs, one line for every path already processed; when it returns,
\* one line for every path of the list; and no exception of
\* read_file_direct_storage leaves search_files_with_regex.
C3_OneResultPerPath ==
    /\ Len(results) <= Len(file_paths)
    /\ \A i \in 1..Len(results) : results[i].path = file_paths[i]
    /\ pc \in LoopPcs => Len(results) = idx - 1
    /\ pc = "idle" /\ caller # "none" => ScanDone
    /\ ScanDone => Len(results) = Len(file_paths)
    /\ lastOp \notin {"run_threw", "scan_threw"}

C3_Witness ==
    /\ ScanDone
    /\ \E i, j \in 1..Len(results) :
          /\ i < j
          /\ results[i].err = "open"
          /\ results[j].err = "none"

C5_ZeroSizeSpecialCased ==
    \A i \in 1..Len(results) :
        LET r == results[i] IN
        (disk[r.path].exists /\ disk[r.path].data = <<>>
           /\ r.err \notin {"open", "size"})
        => (r.err = "none" /\ r.content = <<>> /\ 0 \notin Range(r.allocs))

\* C6: a scan called while the context is not initialized fails with
\* NotInitializedError for every path and dereferences no handle.
C6_NotInitializedError ==
    (caller = "direct" /\ ~scanInit) =>
        /\ pc # "crashed"
        /\ \A i \in 1..Len(results) : results[i].err = "not_initialized"

\* C7: after initialize_direct_storage has returned or thrown, the device,
\* the command queue, the command allocator and the command list are all
\* valid or all absent.
C7_AtomicInit ==
    \/ device /\ commandQueue /\ commandAllocator /\ commandList
    \/ ~device /\ ~commandQueue /\ ~commandAllocator /\ ~commandList

\* C8: outside read_file_direct_storage (before an invocation and after it
\* has returned or thrown) no buffer is held and none is mapped.
C8_BuffersReleased ==
    pc \in {"idle", "open"} =>
        \A b \in BufIds : ~buffers[b].alive /\ ~buffers[b].mapped

C8_Witness ==
    /\ ScanDone
    /\ \E i, j, k \in 1..Len(results) :
          /\ results[i].err = "map"
          /\ results[j].err = "alloc_rb"
          /\ results[k].err = "none"

\* C9: XWF_Exit returns 0 and leaves every handle released from any state it
\* is called in; called again when already shut down it changes nothing of
\* the program's state.
C9_ExitIdempotent ==
    [][ lastOp' \in {"exit", "exit_twice"} =>
          /\ AllReleased' /\ ret' = 0 /\ pc' = "idle"
          /\ lastOp \in {"exit", "exit_twice"} =>
                /\ relOrder' = <<>>
                /\ UNCHANGED <<disk, ctxVars, devVars, scanVars, localVars, pc, ret,
                               inits, scans>> ]_vars

\* XWF_Exit was called a second time in a row, after at least one XWF_Run:
\* the context was already shut down
C9_Witness ==
    /\ lastOp = "exit_twice"
    /\ AllReleased
    /\ relOrder = <<>>
    /\ inits > 0

\* C10: two scans of the same list with the same pattern in one initialized
\* session print the same match for every path both of them read (with
\* every submission accepted by the device).
C10_ScanIdempotent ==
    (ScanDone /\ caller = "direct" /\ prev.valid
        /\ prev.paths = file_paths /\ prev.pattern = regex_pattern)
    => \A i \in 1..Len(results) :
           (Verdict(results[i]) # "error" /\ prev.matched[i] # "error")
           => Verdict(results[i]) = prev.matched[i]


\* C11: an invocation one of whose submissions (the read request, the copy
\* command list) the device rejected does not return a byte sequence: its
\* path is reported as an error.
C11_RejectionSurfaces ==
    \A i \in 1..Len(results) : results[i].rejected => results[i].err # "none"

\* C12: a call of initialize_direct_storage made while a Device Context
\* exists does not create another one.
C12_ContextCreatedOnce ==
    [][ inits' # inits => ~(Initialized /\ Initialized') ]_vars

\* C13: from the allocation of the readback buffer on, the storage queue
\* holds no request of this invocation, and the read it accepted has put the
\* file's bytes into the Default-heap buffer; while a request is outstanding
\* the invocation has no readback buffer yet.
C13_ReadCompleteBeforeCopy ==
    /\ pc \in {"alloc_rb", "record", "execute", "map", "memcpy", "return"} =>
          /\ sqEnqueued = <<>> /\ sqSubmitted = <<>>
          /\ (pc \in {"alloc_rb", "record", "execute"} /\ ~rejected) =>
                buffers[gpuBuffer].data = disk[Path].data
    /\ (sqEnqueued # <<>> \/ sqSubmitted # <<>>) =>
          pc \in {"submit", "wait"} /\ readbackBuffer = 0

C13_Witness ==
    /\ pc = "record" /\ ~rejected /\ fileSize > 0
    /\ buffers[gpuBuffer].data = disk[Path].data
    /\ buffers[readbackBuffer].alive

\* C14: every command list submitted to the command queue holds exactly two
\* commands, the transition and the copy of the file it was submitted for.
C14_OneShotCommandList ==
    \A i \in 1..Len(cqPending) :
        /\ Len(cqPending[i]) = 2
        /\ cqPending[i][1].op = "barrier"
        /\ cqPending[i][2].op = "copy"

\* C15: a call of XWF_Run one of whose initialization sub-steps fails
\* returns 1 at once, with no scan started and no file, request, buffer or
\* command touched; the loop of a run is only ever entered after a
\* successful initialization.
C15_FailedInitStopsRun ==
    /\ []((pc \in LoopPcs /\ caller = "run") => scanInit)
    /\ [][ (inits' # inits /\ ~Initialized') =>
              /\ pc' = "idle" /\ ret' = 1 /\ caller' = "none"
              /\ results' = <<>> /\ storageFile' = FALSE
              /\ sqEnqueued' = <<>> /\ sqSubmitted' = <<>>
              /\ UNCHANGED <<buffers, gpuBuffer, readbackBuffer, allocs>> ]_vars

C15_Witness ==
    /\ lastOp = "run_failed" /\ ret = 1 /\ pc = "idle"
    /\ device /\ ~storageQueue /\ results = <<>>

\* position of handle h in the order XWF_Exit released the handles
Pos(h) == CHOOSE i \in 1..Len(relOrder) : relOrder[i] = h

\* C16: in every XWF_Exit, each of the storage queue, command list, command
\* allocator and command queue that was released was released before the
\* device, and the storage queue before the storage factory.
C16_ReverseDependencyOrder ==
    LET released == Range(relOrder)
        Before(a, b) == {a, b} \subseteq released => Pos(a) < Pos(b)
    IN  /\ \A h \in {"storageQueue", "commandList", "commandAllocator",
                     "commandQueue"} : Before(h, "device")
        /\ Before("storageQueue", "storageFactory")

C16_Witness == lastOp = "exit" /\ Len(relOrder) = 6 /\ AllReleased

\* C17: a scan that has begun reaches its return with one result line per
\* path, and the storage queue's idle wait is the only step of the loop the
\* control thread can be held at.
C17_ScanTerminates ==
    /\ [](pc \in (LoopPcs \ {"wait"}) => ENABLED HostStep)
    /\ (pc \in LoopPcs) ~> (ScanDone /\ Len(results) = Len(file_paths))

C17_Witness ==
    /\ ScanDone /\ Len(results) = Len(RunPaths)
    /\ \E i \in 1..Len(results) :
          results[i].err = "none" /\ ~results[i].rejected
                                  /\ Len(results[i].content) > 0

\* buffer b is named by a request or a command submitted to the device and
\* not yet completed
Referenced(b) ==
    \/ \E i \in 1..Len(sqSubmitted) : sqSubmitted[i].dest = b
    \/ \E i \in 1..Len(cqPending) : \E j \in 1..Len(cqPending[i]) :
          b \in {cqPending[i][j].dst, cqPending[i][j].src}

\* C18: no step releases a device buffer that submitted, uncompleted device
\* work names.
C18_NoReleaseWhileReferenced ==
    [][ \A b \in BufIds :
           (buffers[b].alive /\ ~buffers'[b].alive) => ~Referenced(b) ]_vars

\* C19: a run that reached the end of its list returned 0, whatever its
\* result lines say, and an entry point returns 1 only as a call of XWF_Run
\* whose initialization failed.
C19_ReturnCodeFromInitOnly ==
    /\ []((pc = "idle" /\ caller = "run") => (ret = 0 /\ lastOp = "run_ok"))
    /\ [][ (pc' = "idle" /\ ret' = 1 /\ (pc # "idle" \/ inits' # inits)) =>
              (inits' # inits /\ ~Initialized') ]_vars

C19_Witness ==
    /\ pc = "idle" /\ caller = "run" /\ ret = 0 /\ lastOp = "run_ok"
    /\ Len(results) = Len(RunPaths)
    /\ \A i \in 1..Len(results) : results[i].err # "none"

====
